---- MODULE Spec2Model ----
(***************************************************************************)
(* Model of internal/receiver/smartagentreceiver/converter/event.go:       *)
(* sfxEventToPDataLogs converts one SignalFx event into a plog.Logs value  *)
(* holding one log record.                                                 *)
(*                                                                         *)
(* A pcommon.Map is modelled as what it is in pdata, a slice of key/value  *)
(* entries, and Insert* as documented for pcommon.Map: "Insert adds the    *)
(* Value to the map when the key does not exist. No action is applied to   *)
(* the map where the key already exists."  Go's map iteration order is     *)
(* unspecified, so every range loop runs over an arbitrary permutation of  *)
(* the keys.                                                               *)
(***************************************************************************)
EXTENDS Integers, Sequences, FiniteSets, TLC

\* ------------------------------------------------------------------ bounds
\* most dimensions an event carries
MaxDims == 2
\* int64 / uint64 are modelled TimestampBits wide (two's complement)
TimestampBits == 2

\* --------------------------------------------------------------- constants
SFxEventCategoryKey == "com.splunk.signalfx.event_category"
SFxEventPropertiesKey == "com.splunk.signalfx.event_properties"
SFxEventType == "com.splunk.signalfx.event_type"

NilLogMessage == "property with nil value will not be reported"

\* --------------------------------------------------------- input universe
Pow2(n) == IF n = 0 THEN 1 ELSE IF n = 1 THEN 2 ELSE IF n = 2 THEN 4
           ELSE IF n = 3 THEN 8 ELSE IF n = 4 THEN 16 ELSE 32

\* time.Time{} (January 1, year 1) lies before the smallest instant whose
\* nanoseconds since the Unix epoch fit an int64
ZeroTime == 0 - Pow2(TimestampBits) - 1
\* instants are written as their exact (unbounded) nanoseconds since the epoch
Times == ZeroTime .. (Pow2(TimestampBits) - 1)

Categories == {0, 5}
EventTypes == {"", "alert"}
DimKeys == {SFxEventCategoryKey, SFxEventType, SFxEventPropertiesKey, "host"}
DimValues == {"a", "b"}
PropKeys == {"p1", "p2"}

\* a float is mant * 2^exp; float32 -> float64 keeps both
Float(m, e) == [mant |-> m, exp |-> e]
GoNil == [type |-> "nil", val |-> 0]
PropValues ==
  { GoNil,
    [type |-> "string", val |-> "x"],
    [type |-> "bool", val |-> TRUE],
    [type |-> "int", val |-> 3],
    [type |-> "int8", val |-> 0 - 3],
    [type |-> "int16", val |-> 4],
    [type |-> "int32", val |-> 0 - 5],
    [type |-> "int64", val |-> 6],
    [type |-> "float32", val |-> Float(7, 0 - 1)],
    [type |-> "float64", val |-> Float(3, 0 - 2)],
    [type |-> "uint", val |-> 7],
    [type |-> "struct", val |-> <<1, 2>>] }

PartialFns(K, V, max) ==
  UNION { [D -> V] : D \in { S \in SUBSET K : Cardinality(S) <= max } }

Events ==
  [ Timestamp : Times,
    Category : Categories,
    EventType : EventTypes,
    Dimensions : PartialFns(DimKeys, DimValues, MaxDims),
    Properties : PartialFns(PropKeys, PropValues, Cardinality(PropKeys)) ]

\* every order a range loop over the keys of m may take
IterationOrders(m) ==
  { o \in [1 .. Cardinality(DOMAIN m) -> DOMAIN m] :
      \A i, j \in DOMAIN o : i # j => o[i] # o[j] }

\* ------------------------------------------------------------ pcommon.Value
\* a value is its kind and one slot per kind, of which only the slot of the
\* kind is meaningful (the others keep their zero value)
ValueNull ==
  [kind |-> "null", int |-> 0, str |-> "", bool |-> FALSE,
   double |-> Float(0, 0), map |-> <<>>]
ValueInt(n) == [ValueNull EXCEPT !.kind = "int", !.int = n]
ValueString(s) == [ValueNull EXCEPT !.kind = "string", !.str = s]
ValueBool(b) == [ValueNull EXCEPT !.kind = "bool", !.bool = b]
ValueDouble(d) == [ValueNull EXCEPT !.kind = "double", !.double = d]
ValueMap(m) == [ValueNull EXCEPT !.kind = "map", !.map = m]

\* -------------------------------------------------------------- pcommon.Map
NewMap == <<>>
Has(m, k) == \E i \in DOMAIN m : m[i].key = k
\* Get returns the first entry under the key
Get(m, k) == m[CHOOSE i \in DOMAIN m : m[i].key = k /\ \A j \in 1 .. (i - 1) : m[j].key # k].value
KeysOf(m) == { m[i].key : i \in DOMAIN m }
CountKey(m, k) == Cardinality({ i \in DOMAIN m : m[i].key = k })

\* a plausible slip: Upsert semantics (replace the value of an existing key)
Insert_Upsert(m, k, v) ==
  IF Has(m, k)
  THEN [i \in DOMAIN m |-> IF m[i].key = k THEN [key |-> k, value |-> v] ELSE m[i]]
  ELSE Append(m, [key |-> k, value |-> v])

\* a plausible slip: append without looking for the key
Insert_Append(m, k, v) == Append(m, [key |-> k, value |-> v])

Insert(m, k, v) ==
  IF Has(m, k) THEN m ELSE Append(m, [key |-> k, value |-> v])

InsertNull(m, k) == Insert(m, k, ValueNull)
InsertInt(m, k, n) == Insert(m, k, ValueInt(n))
InsertString(m, k, s) == Insert(m, k, ValueString(s))
InsertBool(m, k, b) == Insert(m, k, ValueBool(b))
InsertDouble(m, k, d) == Insert(m, k, ValueDouble(d))

\* ------------------------------------------------------------------- time
IsZero(t) == t = ZeroTime

\* Time.UnixNano: the nanoseconds since the epoch as an int64 (wraps)
UnixNano(t) ==
  ((t + Pow2(TimestampBits - 1)) % Pow2(TimestampBits)) - Pow2(TimestampBits - 1)

\* pcommon.Timestamp(int64): conversion to uint64
Timestamp(n) == n % Pow2(TimestampBits)

\* a plausible slip: the IsZero test is left out
ResolveUnixNano_NoZeroCheck(t) == UnixNano(t)

ResolveUnixNano(t) == IF ~IsZero(t) THEN UnixNano(t) ELSE 0

\* -------------------------------------------------------------- fmt "%v"
Digit(n) == CASE n = 0 -> "0" [] n = 1 -> "1" [] n = 2 -> "2" [] n = 3 -> "3"
              [] n = 4 -> "4" [] n = 5 -> "5" [] n = 6 -> "6" [] n = 7 -> "7"
              [] n = 8 -> "8" [] n = 9 -> "9"

RECURSIVE Decimal(_)
Decimal(n) == IF n < 10 THEN Digit(n) ELSE Decimal(n \div 10) \o Digit(n % 10)

RECURSIVE JoinFields(_)
JoinFields(s) ==
  IF Len(s) = 0 THEN ""
  ELSE IF Len(s) = 1 THEN Decimal(s[1])
  ELSE Decimal(s[1]) \o " " \o JoinFields(Tail(s))

\* fmt.Sprintf("%v", value) for the types that reach the default case
Sprintf(value) ==
  CASE value.type = "uint" -> Decimal(value.val)
    [] value.type = "struct" -> "{" \o JoinFields(value.val) \o "}"

\* ----------------------------------------------------- sfxEventToPDataLogs
AttrsCapacity(ev) ==
  2 + Cardinality(DOMAIN ev.Dimensions)
    + (IF Cardinality(DOMAIN ev.Properties) > 0 THEN 1 ELSE 0)

WriteCategory(attrs, ev) ==
  IF ev.Category = 0
  THEN InsertNull(attrs, SFxEventCategoryKey)
  ELSE InsertInt(attrs, SFxEventCategoryKey, ev.Category)

\* a plausible slip: the type attribute is written whatever EventType
WriteType_Always(attrs, ev) == InsertString(attrs, SFxEventType, ev.EventType)

WriteType(attrs, ev) ==
  IF ev.EventType # ""
  THEN InsertString(attrs, SFxEventType, ev.EventType)
  ELSE attrs

\* a plausible slip: the loop is left after its first iteration
WriteDimensions_FirstOnly(attrs, dims, order) ==
  IF order = <<>> THEN attrs
  ELSE InsertString(attrs, Head(order), dims[Head(order)])

RECURSIVE WriteDimensions(_, _, _)
WriteDimensions(attrs, dims, order) ==
  IF order = <<>> THEN attrs
  ELSE WriteDimensions(InsertString(attrs, Head(order), dims[Head(order)]),
                       dims, Tail(order))

\* a plausible slip: the narrow integer cases fall to the default case
InsertProperty_IntAsString(propMap, property, value) ==
  CASE value.type = "string" -> InsertString(propMap, property, value.val)
    [] value.type = "bool" -> InsertBool(propMap, property, value.val)
    [] value.type \in {"int", "int8", "int16", "int32"} ->
         InsertString(propMap, property,
                      IF value.val < 0 THEN "-" \o Decimal(0 - value.val)
                      ELSE Decimal(value.val))
    [] value.type = "int64" -> InsertInt(propMap, property, value.val)
    [] value.type \in {"float32", "float64"} -> InsertDouble(propMap, property, value.val)
    [] OTHER -> InsertString(propMap, property, Sprintf(value))

\* the type switch
InsertProperty(propMap, property, value) ==
  CASE value.type = "string" -> InsertString(propMap, property, value.val)
    [] value.type = "bool" -> InsertBool(propMap, property, value.val)
    [] value.type = "int" -> InsertInt(propMap, property, value.val)
    [] value.type = "int8" -> InsertInt(propMap, property, value.val)
    [] value.type = "int16" -> InsertInt(propMap, property, value.val)
    [] value.type = "int32" -> InsertInt(propMap, property, value.val)
    [] value.type = "int64" -> InsertInt(propMap, property, value.val)
    [] value.type = "float32" -> InsertDouble(propMap, property, value.val)
    [] value.type = "float64" -> InsertDouble(propMap, property, value.val)
    [] OTHER -> InsertString(propMap, property, Sprintf(value))

DebugEntry(property) ==
  [level |-> "debug", msg |-> NilLogMessage, property |-> property]

\* a plausible slip: break instead of continue on a nil value
RECURSIVE PropertiesLoop_Break(_, _, _)
PropertiesLoop_Break(st, props, order) ==
  IF order = <<>> THEN st
  ELSE IF props[Head(order)].type = "nil"
       THEN [st EXCEPT !.debug = Append(@, DebugEntry(Head(order)))]
       ELSE PropertiesLoop_Break(
              [st EXCEPT !.propMap = InsertProperty(@, Head(order), props[Head(order)])],
              props, Tail(order))

\* a plausible slip: the debug line is written for every property
RECURSIVE PropertiesLoop_LogAll(_, _, _)
PropertiesLoop_LogAll(st, props, order) ==
  IF order = <<>> THEN st
  ELSE IF props[Head(order)].type = "nil"
       THEN PropertiesLoop_LogAll(
              [st EXCEPT !.debug = Append(@, DebugEntry(Head(order)))],
              props, Tail(order))
       ELSE PropertiesLoop_LogAll(
              [propMap |-> InsertProperty(st.propMap, Head(order), props[Head(order)]),
               debug |-> Append(st.debug, DebugEntry(Head(order)))],
              props, Tail(order))

\* the loop over event.Properties; st = [propMap, debug]
RECURSIVE PropertiesLoop(_, _, _)
PropertiesLoop(st, props, order) ==
  IF order = <<>> THEN st
  ELSE IF props[Head(order)].type = "nil"
       THEN PropertiesLoop(
              [st EXCEPT !.debug = Append(@, DebugEntry(Head(order)))],
              props, Tail(order))
       ELSE PropertiesLoop(
              [st EXCEPT !.propMap = InsertProperty(@, Head(order), props[Head(order)])],
              props, Tail(order))

\* a plausible slip: the properties map is inserted whatever len(Properties)
WriteProperties_Always(st, ev, order) ==
  LET r == PropertiesLoop([propMap |-> NewMap, debug |-> st.debug],
                          ev.Properties, order)
  IN [attrs |-> Insert(st.attrs, SFxEventPropertiesKey, ValueMap(r.propMap)),
      debug |-> r.debug]

\* the block under len(event.Properties) > 0; st = [attrs, debug]
WriteProperties(st, ev, order) ==
  IF Cardinality(DOMAIN ev.Properties) > 0
  THEN LET r == PropertiesLoop([propMap |-> NewMap, debug |-> st.debug],
                               ev.Properties, order)
       IN [attrs |-> Insert(st.attrs, SFxEventPropertiesKey, ValueMap(r.propMap)),
           debug |-> r.debug]
  ELSE st

\* plog.Logs is ResourceLogs > ScopeLogs > LogRecords; newLogs appends one of each
EmptyLogRecord == [timestamp |-> 0, attrs |-> NewMap]
newLogs == << << << EmptyLogRecord >> >> >>

\* the whole conversion under one iteration order of each mapping:
\* the returned logs and the messages handed to the logger
Convert(ev, dimOrder, propOrder) ==
  LET unixNano == ResolveUnixNano(ev.Timestamp)
      a1 == WriteCategory(NewMap, ev)
      a2 == WriteType(a1, ev)
      a3 == WriteDimensions(a2, ev.Dimensions, dimOrder)
      r == WriteProperties([attrs |-> a3, debug |-> <<>>], ev, propOrder)
  IN [logs |-> [newLogs EXCEPT ![1][1][1] =
                  [timestamp |-> Timestamp(unixNano), attrs |-> r.attrs]],
      debug |-> r.debug,
      capacity |-> AttrsCapacity(ev)]

\* ------------------------------------------------------------------- state
VARIABLES event, pc, logs, debugLog, attrsCapacity

vars == <<event, pc, logs, debugLog, attrsCapacity>>

Init ==
  /\ event \in Events
  /\ pc = "called"
  /\ logs = <<>>
  /\ debugLog = <<>>
  /\ attrsCapacity = 0

sfxEventToPDataLogs ==
  /\ pc = "called"
  /\ \E dimOrder \in IterationOrders(event.Dimensions),
        propOrder \in IterationOrders(event.Properties) :
       LET r == Convert(event, dimOrder, propOrder)
       IN /\ logs' = r.logs
          /\ debugLog' = debugLog \o r.debug
          /\ attrsCapacity' = r.capacity
  /\ pc' = "returned"
  /\ UNCHANGED event

Next == sfxEventToPDataLogs

Spec == Init /\ [][Next]_vars

\* ------------------------------------------------------- views of the state
Returned == pc = "returned"

\* every log record of a plog.Logs value, flattened
RECURSIVE Flatten(_)
Flatten(ss) == IF ss = <<>> THEN <<>> ELSE Head(ss) \o Flatten(Tail(ss))
LogRecords(l) == Flatten(Flatten(l))

lr == logs[1][1][1]
dims == event.Dimensions
props == event.Properties
NilProps == { p \in DOMAIN props : props[p].type = "nil" }
NonNilProps == DOMAIN props \ NilProps

IsKind(m, k, kind) == Has(m, k) /\ Get(m, k).kind = kind
IsAttr(m, k, v) == Has(m, k) /\ Get(m, k) = v

CategoryValue == IF event.Category = 0 THEN ValueNull ELSE ValueInt(event.Category)

\* the value the claims expect for a non-nil property
ExpectedProperty(v) ==
  CASE v.type = "string" -> ValueString(v.val)
    [] v.type = "bool" -> ValueBool(v.val)
    [] v.type \in {"int", "int8", "int16", "int32", "int64"} -> ValueInt(v.val)
    [] v.type \in {"float32", "float64"} -> ValueDouble(v.val)
    [] v.type = "uint" -> ValueString("7")
    [] v.type = "struct" -> ValueString("{1 2}")

\* the nested map holds one entry per non-nil property, of the expected kind
PropertiesMapOk(m) ==
  /\ KeysOf(m) = NonNilProps
  /\ \A p \in NonNilProps : CountKey(m, p) = 1 /\ Get(m, p) = ExpectedProperty(props[p])

\* a pcommon.Map as the mapping it stands for (entry order dropped)
MapView(m) == [k \in KeysOf(m) |-> Get(m, k)]
AttrsView(m) ==
  [k \in KeysOf(m) |->
     [Get(m, k) EXCEPT !.map = MapView(@)]]
LogsView(l) ==
  [i \in DOMAIN LogRecords(l) |->
     [timestamp |-> LogRecords(l)[i].timestamp,
      attrs |-> AttrsView(LogRecords(l)[i].attrs)]]

\* ------------------------------------------------------------------ claims

\* C1: the returned record has exactly one attribute under the category
\* marker key, null when Category = 0 and the integer Category otherwise,
\* whatever the dimensions and properties (also a dimension of that key).
C1_CategoryAttribute ==
  Returned =>
    /\ CountKey(lr.attrs, SFxEventCategoryKey) = 1
    /\ Get(lr.attrs, SFxEventCategoryKey) = CategoryValue

C1_Witness ==
  /\ Returned
  /\ SFxEventCategoryKey \in DOMAIN dims
  /\ event.Category # 0
  /\ Get(lr.attrs, SFxEventCategoryKey) = ValueInt(event.Category)

\* C2 as stated: no attribute under the type marker key when EventType is
\* empty, the string EventType under it otherwise.
C2_Original ==
  Returned =>
    IF event.EventType = ""
    THEN ~Has(lr.attrs, SFxEventType)
    ELSE IsAttr(lr.attrs, SFxEventType, ValueString(event.EventType))

\* C2 amended: with a non-empty EventType the type marker key holds the
\* string EventType; with an empty EventType the key is absent unless a
\* dimension has that key, and then it holds that dimension's string value.
C2_TypeAttribute ==
  Returned =>
    /\ CountKey(lr.attrs, SFxEventType) <= 1
    /\ event.EventType # "" =>
         IsAttr(lr.attrs, SFxEventType, ValueString(event.EventType))
    /\ (event.EventType = "" /\ SFxEventType \notin DOMAIN dims) =>
         ~Has(lr.attrs, SFxEventType)
    /\ (event.EventType = "" /\ SFxEventType \in DOMAIN dims) =>
         IsAttr(lr.attrs, SFxEventType, ValueString(dims[SFxEventType]))

C2_Witness ==
  /\ Returned
  /\ event.EventType = ""
  /\ SFxEventType \in DOMAIN dims
  /\ Has(lr.attrs, SFxEventType)

\* C3 as stated: every dimension pair (k, v) is a string attribute k = v.
C3_Original ==
  Returned => \A k \in DOMAIN dims : IsAttr(lr.attrs, k, ValueString(dims[k]))

\* a dimension key that a marker written earlier already occupies
Shadowed(k) ==
  \/ k = SFxEventCategoryKey
  \/ k = SFxEventType /\ event.EventType # ""

\* C3 amended: every dimension pair (k, v) is a string attribute k = v,
\* except a dimension whose key is the category marker key, or the type
\* marker key of an event with a non-empty EventType: that key keeps the
\* marker's value.
C3_DimensionAttributes ==
  Returned =>
    \A k \in DOMAIN dims :
      /\ ~Shadowed(k) => IsAttr(lr.attrs, k, ValueString(dims[k]))
      /\ (k = SFxEventCategoryKey) => IsAttr(lr.attrs, k, CategoryValue)
      /\ (k = SFxEventType /\ event.EventType # "") =>
           IsAttr(lr.attrs, k, ValueString(event.EventType))

C3_Witness ==
  /\ Returned
  /\ Cardinality(DOMAIN dims) = MaxDims
  /\ SFxEventCategoryKey \in DOMAIN dims
  /\ "host" \in DOMAIN dims
  /\ IsAttr(lr.attrs, "host", ValueString(dims["host"]))

\* C4 as stated: with non-empty Properties the output's nested properties
\* map has exactly one entry per non-nil property, none per nil property,
\* each of the kind its type maps to.
C4_Original ==
  (Returned /\ DOMAIN props # {}) =>
    /\ IsKind(lr.attrs, SFxEventPropertiesKey, "map")
    /\ PropertiesMapOk(Get(lr.attrs, SFxEventPropertiesKey).map)

\* C4 amended: the same, for events none of whose dimensions has the
\* properties marker key; with such a dimension the output has no nested
\* properties map.
C4_PropertyEntries ==
  (Returned /\ DOMAIN props # {}) =>
    IF SFxEventPropertiesKey \in DOMAIN dims
    THEN ~IsKind(lr.attrs, SFxEventPropertiesKey, "map")
    ELSE /\ IsKind(lr.attrs, SFxEventPropertiesKey, "map")
         /\ PropertiesMapOk(Get(lr.attrs, SFxEventPropertiesKey).map)

C4_Witness ==
  /\ Returned
  /\ SFxEventPropertiesKey \notin DOMAIN dims
  /\ NilProps # {}
  /\ \E p \in NonNilProps : props[p].type = "int8"
  /\ IsKind(lr.attrs, SFxEventPropertiesKey, "map")

\* C5 as stated: an attribute under the properties marker key exists iff
\* Properties is non-empty, and is then exactly one nested map.
C5_Original ==
  Returned =>
    /\ Has(lr.attrs, SFxEventPropertiesKey) <=> DOMAIN props # {}
    /\ DOMAIN props # {} =>
         /\ CountKey(lr.attrs, SFxEventPropertiesKey) = 1
         /\ IsKind(lr.attrs, SFxEventPropertiesKey, "map")

\* C5 amended: when no dimension has the properties marker key, C5 as
\* stated; when a dimension has it, the key holds exactly one attribute, that
\* dimension's string value, whether Properties is empty or not.
C5_PropertiesAttribute ==
  Returned =>
    /\ CountKey(lr.attrs, SFxEventPropertiesKey) <= 1
    /\ SFxEventPropertiesKey \notin DOMAIN dims =>
         /\ Has(lr.attrs, SFxEventPropertiesKey) <=> DOMAIN props # {}
         /\ DOMAIN props # {} => IsKind(lr.attrs, SFxEventPropertiesKey, "map")
    /\ SFxEventPropertiesKey \in DOMAIN dims =>
         IsAttr(lr.attrs, SFxEventPropertiesKey,
                ValueString(dims[SFxEventPropertiesKey]))

C5_Witness ==
  /\ Returned
  /\ DOMAIN props # {}
  /\ NonNilProps = {}
  /\ IsAttr(lr.attrs, SFxEventPropertiesKey, ValueMap(NewMap))

\* C6 as stated: one log entry, whose timestamp is 0 for the zero
\* Timestamp and the Timestamp's nanoseconds since the epoch otherwise.
C6_Original ==
  Returned =>
    /\ Len(LogRecords(logs)) = 1
    /\ lr.timestamp = IF IsZero(event.Timestamp) THEN 0 ELSE event.Timestamp

\* nanoseconds since the epoch that fit the non-negative half of an int64
Representable(t) == 0 <= t /\ t < Pow2(TimestampBits - 1)

\* C6 amended: one log entry, whose timestamp is 0 for the zero Timestamp
\* and otherwise the Timestamp's nanoseconds since the epoch taken modulo
\* 2^width of the unsigned timestamp field: the nanoseconds themselves for
\* an instant from the epoch up to the largest int64.
C6_Timestamp ==
  Returned =>
    /\ Len(LogRecords(logs)) = 1
    /\ IsZero(event.Timestamp) => lr.timestamp = 0
    /\ ~IsZero(event.Timestamp) =>
         /\ lr.timestamp \in 0 .. (Pow2(TimestampBits) - 1)
         /\ (lr.timestamp - event.Timestamp) % Pow2(TimestampBits) = 0
         /\ Representable(event.Timestamp) => lr.timestamp = event.Timestamp

C6_Witness ==
  /\ Returned
  /\ ~IsZero(event.Timestamp)
  /\ event.Timestamp < 0
  /\ lr.timestamp # event.Timestamp

\* C7: the logger receives exactly one debug message per nil-valued
\* property, naming its key, and nothing else; the properties after a nil
\* one are still converted.
C7_NilDiagnostics ==
  Returned =>
    /\ Len(debugLog) = Cardinality(NilProps)
    /\ \A i \in DOMAIN debugLog :
         /\ debugLog[i].level = "debug"
         /\ debugLog[i].property \in NilProps
    /\ \A p \in NilProps :
         Cardinality({ i \in DOMAIN debugLog : debugLog[i].property = p }) = 1
    /\ IsKind(lr.attrs, SFxEventPropertiesKey, "map") =>
         KeysOf(Get(lr.attrs, SFxEventPropertiesKey).map) = NonNilProps

C7_Witness ==
  /\ Returned
  /\ NilProps # {}
  /\ NonNilProps # {}
  /\ Len(debugLog) = 1
  /\ IsKind(lr.attrs, SFxEventPropertiesKey, "map")

\* C8 as stated: the last write to a key wins, so a dimension whose key is
\* the category or the type marker key leaves its own string value there.
C8_Original ==
  Returned =>
    \A k \in {SFxEventCategoryKey, SFxEventType} \cap DOMAIN dims :
      Get(lr.attrs, k) = ValueString(dims[k])

\* C8 amended: the first write to a key wins: under the category marker key
\* the category value stays, under the type marker key of an event with a
\* non-empty EventType the EventType stays, and a dimension whose key is the
\* properties marker key keeps its value there, the nested map being dropped.
C8_FirstWriteWins ==
  Returned =>
    /\ \A k \in KeysOf(lr.attrs) : CountKey(lr.attrs, k) = 1
    /\ SFxEventCategoryKey \in DOMAIN dims =>
         Get(lr.attrs, SFxEventCategoryKey) = CategoryValue
    /\ (SFxEventType \in DOMAIN dims /\ event.EventType # "") =>
         Get(lr.attrs, SFxEventType) = ValueString(event.EventType)
    /\ SFxEventPropertiesKey \in DOMAIN dims =>
         Get(lr.attrs, SFxEventPropertiesKey) = ValueString(dims[SFxEventPropertiesKey])

C8_Witness ==
  /\ Returned
  /\ SFxEventType \in DOMAIN dims
  /\ SFxEventPropertiesKey \in DOMAIN dims
  /\ event.EventType # ""
  /\ DOMAIN props # {}
  /\ Get(lr.attrs, SFxEventType) = ValueString(event.EventType)

\* C9: the attribute keys of the output are the category marker key, the
\* type marker key when EventType is non-empty, every dimension key and the
\* properties marker key when Properties is non-empty, and nothing else; the
\* number of attributes does not exceed the capacity computed beforehand.
C9_KeySet ==
  Returned =>
    /\ KeysOf(lr.attrs) =
         {SFxEventCategoryKey}
           \cup (IF event.EventType # "" THEN {SFxEventType} ELSE {})
           \cup DOMAIN dims
           \cup (IF DOMAIN props # {} THEN {SFxEventPropertiesKey} ELSE {})
    /\ Len(lr.attrs) <= attrsCapacity
    /\ attrsCapacity =
         2 + Cardinality(DOMAIN dims) + (IF DOMAIN props # {} THEN 1 ELSE 0)

C9_Witness ==
  /\ Returned
  /\ event.EventType # ""
  /\ DOMAIN props # {}
  /\ DOMAIN dims = {"host"}
  /\ Len(lr.attrs) = attrsCapacity

\* C10: the returned record depends on the event alone: the record of the
\* state and the record of every other iteration order of Dimensions and
\* Properties agree in timestamp, attributes and nested properties map.
C10_OrderIndependent ==
  Returned =>
    \A dimOrder \in IterationOrders(dims), propOrder \in IterationOrders(props) :
      LogsView(Convert(event, dimOrder, propOrder).logs) = LogsView(logs)

C10_Witness ==
  /\ Returned
  /\ SFxEventPropertiesKey \in DOMAIN dims
  /\ "host" \in DOMAIN dims
  /\ NilProps # {}
  /\ NonNilProps # {}
  /\ \E dimOrder \in IterationOrders(dims), propOrder \in IterationOrders(props) :
       /\ Convert(event, dimOrder, propOrder).logs # logs
       /\ LogsView(Convert(event, dimOrder, propOrder).logs) = LogsView(logs)

====
